---- MODULE Spec2Model ----
(***************************************************************************)
(* The two HTTP client modules of Gc-KIT-Bus:                              *)
(*   frontend/src/lib/api.ts  ApiClient (transport core), authAPI and the  *)
(*                            resource modules built on it;                *)
(*   src/lib/api.ts           apiRequest and the api object built on it.   *)
(* A call is an async function: it suspends at `await fetch(...)` and at   *)
(* the read of the response body, so each call advances in steps and the   *)
(* calls in flight interleave at these points.                             *)
(***************************************************************************)
EXTENDS Integers, Sequences, FiniteSets, TLC

(* store: localStorage, keys 'token' and 'user' (api.ts:17, 28-29);        *)
(* href:  window.location.href (api.ts:30);                                *)
(* calls: the async calls in flight, each with its position, request,      *)
(*        response, the side effects it performed and what it settled with *)
VARIABLES store, href, calls

vars == <<store, href, calls>>

(* Number of call slots that may be in flight at the same time. *)
MaxCalls == 2

CallIds == 1..MaxCalls

-----------------------------------------------------------------------------
(* Values *)

NoToken == "<no token>"
NoUser == "<no user>"
NoHeader == "<no header>"
Absent == "<undefined>"

(* localStorage with the two keys the client touches. *)
EmptyStore == [token |-> NoToken, user |-> NoUser]

(* JavaScript truthiness of localStorage.getItem('token'): null and '' are falsy. *)
Truthy(s) == s # NoToken /\ s # Absent /\ s # ""

OK(status) == status >= 200 /\ status <= 299

StatusText(status) ==
    CASE status = 200 -> "OK"
      [] status = 204 -> "No Content"
      [] status = 401 -> "Unauthorized"
      [] status = 404 -> "Not Found"
      [] status = 500 -> "Internal Server Error"
      [] OTHER -> ""

-----------------------------------------------------------------------------
(* Response bodies as the raw text on the wire, and JSON.parse over them. *)

BodyHtml == "<html>Bad Gateway</html>"
BodyEmpty == ""
BodyNull == "null"
BodyList == "[]"
BodyDetail == "{\"detail\":\"Not authenticated\"}"
BodyMessage == "{\"message\":\"Seat already reserved\"}"
BodyMessageEmpty == "{\"message\":\"\"}"
BodySession1 == "{\"access_token\":\"t1\",\"user\":\"u1\"}"
BodySession2 == "{\"access_token\":\"t2\",\"user\":\"u2\"}"

Bodies == {BodyHtml, BodyEmpty, BodyNull, BodyList, BodyDetail, BodyMessage,
           BodyMessageEmpty, BodySession1, BodySession2}

JsonValue(type, message, token, user) ==
    [type |-> type, message |-> message, access_token |-> token, user |-> user]

NoJson == JsonValue("none", Absent, Absent, Absent)
SyntaxError == JsonValue("SyntaxError", Absent, Absent, Absent)

(* response.json(): the decoded body, or SyntaxError when the text is not JSON. *)
JsonParse(text) ==
    CASE text = BodyNull -> JsonValue("null", Absent, Absent, Absent)
      [] text = BodyList -> JsonValue("array", Absent, Absent, Absent)
      [] text = BodyDetail -> JsonValue("object", Absent, Absent, Absent)
      [] text = BodyMessage -> JsonValue("object", "Seat already reserved", Absent, Absent)
      [] text = BodyMessageEmpty -> JsonValue("object", "", Absent, Absent)
      [] text = BodySession1 -> JsonValue("object", Absent, "t1", "u1")
      [] text = BodySession2 -> JsonValue("object", Absent, "t2", "u2")
      [] OTHER -> SyntaxError

ContentTypes == {"application/json", "application/json; charset=utf-8", "text/plain", NoHeader}

(* contentType.includes('application/json') *)
IncludesJson(contentType) ==
    contentType \in {"application/json", "application/json; charset=utf-8"}

Statuses == {200, 204, 401, 404, 500}

Response(status, contentType, body) ==
    [status |-> status, contentType |-> contentType, body |-> body]

(* Placeholder while no response has arrived: status 0 is no HTTP status. *)
NoResponse == [status |-> 0, contentType |-> NoHeader, body |-> BodyEmpty]

Responses == {Response(s, ct, b) : s \in Statuses, ct \in ContentTypes, b \in Bodies}

-----------------------------------------------------------------------------
(* Operations: which function issues the request, with which verb and path. *)

Op(name, client, method, endpoint, kind) ==
    [name |-> name, client |-> client, method |-> method, endpoint |-> endpoint,
     kind |-> kind]

(* frontend/src/lib/api.ts *)
AuthAPI ==
    [login  |-> Op("authAPI.login", "fetch", "POST", "/api/auth/login", "login"),
     logout |-> Op("authAPI.logout", "ApiClient", "POST", "/api/auth/logout", "logout"),
     me     |-> Op("authAPI.me", "ApiClient", "GET", "/api/auth/me", "read")]

RouteAPI ==
    [getAll |-> Op("routeAPI.getAll", "ApiClient", "GET", "/api/buses/routes", "read"),
     create |-> Op("routeAPI.create", "ApiClient", "POST", "/api/buses/routes", "create")]

BusAPI ==
    [getAll  |-> Op("busAPI.getAll", "ApiClient", "GET", "/api/buses/", "read"),
     create  |-> Op("busAPI.create", "ApiClient", "POST", "/api/buses/", "create"),
     update  |-> Op("busAPI.update", "ApiClient", "PUT", "/api/buses/{id}/", "update"),
     delete  |-> Op("busAPI.delete", "ApiClient", "DELETE", "/api/buses/{id}/", "delete")]

ReservationAPI ==
    [getAll |-> Op("reservationAPI.getAll", "ApiClient", "GET", "/api/reservations/", "read"),
     create |-> Op("reservationAPI.create", "ApiClient", "POST", "/api/reservations/", "create"),
     cancel |-> Op("reservationAPI.cancel", "ApiClient", "DELETE", "/api/reservations/{id}/", "delete")]

(* src/lib/api.ts *)
Api ==
    [busesGetAll        |-> Op("api.buses.getAll", "apiRequest", "GET", "/api/buses", "read"),
     busesDelete        |-> Op("api.buses.delete", "apiRequest", "DELETE", "/api/buses/{id}", "delete"),
     reservationsCreate |-> Op("api.reservations.create", "apiRequest", "POST", "/api/reservations", "create"),
     usersCreate        |-> Op("api.users.create", "apiRequest", "POST", "/api/users", "create"),
     authLogin          |-> Op("api.auth.login", "apiRequest", "POST", "/api/auth/login", "login"),
     authLogout         |-> Op("api.auth.logout", "apiRequest", "POST", "/api/auth/logout", "logout")]

NoOp == Op("", "", "", "", "")

Range(f) == {f[x] : x \in DOMAIN f}

CoreOps == (Range(AuthAPI) \cup Range(RouteAPI) \cup Range(BusAPI) \cup Range(ReservationAPI))
               \ {AuthAPI.login}

LegacyOps == Range(Api)

-----------------------------------------------------------------------------
(* Arguments of a call: the object the caller passes, as its set of keys. *)

ServerAssigned == {"id", "available_seats", "occupancy_rate", "created_at", "createdAt"}

NoData == [given |-> FALSE, keys |-> {}]
Data(keys) == [given |-> TRUE, keys |-> keys]

DataArgs ==
    {NoData,
     Data({"bus_number", "total_seats"}),
     Data({"id", "bus_number", "total_seats", "available_seats"}),
     Data({"name", "created_at"})}

(* JSON.stringify(data): the body text carries exactly the keys of the object. *)
JsonStringify(data) == [present |-> TRUE, keys |-> data.keys]

NoBody == [present |-> FALSE, keys |-> {}]

Request(method, endpoint, contentType, authorization, body) ==
    [method |-> method, endpoint |-> endpoint, contentType |-> contentType,
     authorization |-> authorization, body |-> body]

NoRequest == Request("", "", NoHeader, NoHeader, NoBody)

-----------------------------------------------------------------------------
(* What a call settles with: a returned value or a thrown error.  An error's  *)
(* status is the set holding its `status` field, empty when it has none.      *)

Pending == [kind |-> "pending", name |-> "", status |-> {}, message |-> "",
            json |-> NoJson, text |-> Absent]

ReturnedJson(value) == [kind |-> "returned", name |-> "", status |-> {}, message |-> "",
                        json |-> value, text |-> Absent]

ReturnedText(text) == [kind |-> "returned", name |-> "", status |-> {}, message |-> "",
                       json |-> NoJson, text |-> text]

(* new Error(message): no status field. *)
Error(message) == [kind |-> "threw", name |-> "Error", status |-> {}, message |-> message,
                   json |-> NoJson, text |-> Absent]

(* new ApiError(status, message) *)
ApiError(status, message) ==
    [kind |-> "threw", name |-> "ApiError", status |-> {status}, message |-> message,
     json |-> NoJson, text |-> Absent]

(* What the JavaScript runtime throws by itself. *)
RuntimeError(name, message) ==
    [kind |-> "threw", name |-> name, status |-> {}, message |-> message,
     json |-> NoJson, text |-> Absent]

(* `return response.json()`: the decoded body, or the parser's rejection. *)
ResponseJson(response) ==
    LET parsed == JsonParse(response.body)
    IN  IF parsed = SyntaxError
        THEN RuntimeError("SyntaxError", "Unexpected token in JSON")
        ELSE ReturnedJson(parsed)

(* `error.message || fallback`, `error` being the body decoded or, when it does *)
(* not decode, { message: onParseFailure }.  Reading .message of null throws.   *)
ErrorFromBody(response, onParseFailure) ==
    LET parsed == JsonParse(response.body)
        message == IF parsed = SyntaxError THEN onParseFailure ELSE parsed.message
    IN  IF parsed.type = "null"
        THEN RuntimeError("TypeError", "Cannot read properties of null (reading 'message')")
        ELSE IF Truthy(message)
             THEN Error(message)
             ELSE Error("HTTP " \o ToString(response.status))

-----------------------------------------------------------------------------
(* The host environment the client acts on: localStorage and window.location. *)

RemoveItem(key) == [call |-> "localStorage.removeItem", arg |-> key]
SetHref(url) == [call |-> "window.location.href", arg |-> url]

Env(st, location) == [store |-> st, href |-> location]

Perform(env, effect) ==
    CASE effect.call = "localStorage.removeItem" /\ effect.arg = "token" ->
             Env([env.store EXCEPT !.token = NoToken], env.href)
      [] effect.call = "localStorage.removeItem" /\ effect.arg = "user" ->
             Env([env.store EXCEPT !.user = NoUser], env.href)
      [] effect.call = "window.location.href" ->
             Env(env.store, effect.arg)
      [] OTHER -> env

RECURSIVE PerformAll(_, _)
PerformAll(env, effects) ==
    IF effects = <<>> THEN env
    ELSE PerformAll(Perform(env, Head(effects)), Tail(effects))

-----------------------------------------------------------------------------
(* frontend/src/lib/api.ts: class ApiClient *)

DefaultHeaders == [ContentType |-> "application/json", Authorization |-> NoHeader]

(* Variant: the token is sent without the Bearer scheme. *)
getAuthHeaders_NoScheme(st) ==
    IF Truthy(st.token)
    THEN [DefaultHeaders EXCEPT !.Authorization = st.token]
    ELSE DefaultHeaders

getAuthHeaders(st) ==
    IF Truthy(st.token)
    THEN [DefaultHeaders EXCEPT !.Authorization = "Bearer " \o st.token]
    ELSE DefaultHeaders

(* Variants of the 401 branch: the store is left alone; the principal is left *)
(* behind; the redirect is missing; the redirect comes first; every failure   *)
(* is treated as a 401.                                                       *)
handleResponseSideEffects_RedirectOnly(response) ==
    IF ~OK(response.status) /\ response.status = 401
    THEN <<SetHref("/login")>>
    ELSE <<>>

handleResponseSideEffects_KeepsUser(response) ==
    IF ~OK(response.status) /\ response.status = 401
    THEN <<RemoveItem("token"), SetHref("/login")>>
    ELSE <<>>

handleResponseSideEffects_NoRedirect(response) ==
    IF ~OK(response.status) /\ response.status = 401
    THEN <<RemoveItem("token"), RemoveItem("user")>>
    ELSE <<>>

handleResponseSideEffects_RedirectFirst(response) ==
    IF ~OK(response.status) /\ response.status = 401
    THEN <<SetHref("/login"), RemoveItem("token"), RemoveItem("user")>>
    ELSE <<>>

handleResponseSideEffects_AnyFailure(response) ==
    IF ~OK(response.status)
    THEN <<RemoveItem("token"), RemoveItem("user"), SetHref("/login")>>
    ELSE <<>>

(* The statements of handleResponse that run before the body is read. *)
handleResponseSideEffects(response) ==
    IF ~OK(response.status) /\ response.status = 401
    THEN <<RemoveItem("token"), RemoveItem("user"), SetHref("/login")>>
    ELSE <<>>

(* What handleResponse settles with once the body has been read. *)
handleResponseResult(response) ==
    IF ~OK(response.status)
    THEN ErrorFromBody(response, "Network error")
    ELSE IF response.contentType # NoHeader /\ IncludesJson(response.contentType)
         THEN ResponseJson(response)
         ELSE ReturnedText(response.body)

(* `data ? JSON.stringify(data) : undefined` *)
BodyOf(data) == IF data.given THEN JsonStringify(data) ELSE NoBody

ApiClientRequest(st, op, body) ==
    LET headers == getAuthHeaders(st)
    IN  Request(op.method, op.endpoint, headers.ContentType, headers.Authorization, body)

(* authAPI.login: its own fetch, form-encoded, no Authorization header. *)
LoginRequest ==
    Request("POST", "/api/auth/login", "application/x-www-form-urlencoded", NoHeader,
            [present |-> TRUE, keys |-> {"username", "password"}])

loginResult(response) ==
    IF ~OK(response.status)
    THEN ErrorFromBody(response, "Login failed")
    ELSE ResponseJson(response)

-----------------------------------------------------------------------------
(* src/lib/api.ts: apiRequest *)

(* JSON.stringify(undefined) is undefined: no body is sent. *)
apiRequestRequest(op, data) ==
    Request(op.method, op.endpoint, "application/json", NoHeader,
            IF op.kind \in {"create", "update", "login"} /\ data.given
            THEN JsonStringify(data) ELSE NoBody)

apiRequestError(response) ==
    ApiError(response.status, "API request failed: " \o StatusText(response.status))

-----------------------------------------------------------------------------
(* Calls *)

Call(pc, op, request, response, effects, outcome) ==
    [pc |-> pc, op |-> op, request |-> request, response |-> response,
     effects |-> effects, outcome |-> outcome]

Idle == Call("idle", NoOp, NoRequest, NoResponse, <<>>, Pending)

Init ==
    /\ store = EmptyStore
    /\ href = "/"
    /\ calls = [c \in CallIds |-> Idle]

Send(c, op, request) ==
    /\ calls[c].pc = "idle"
    /\ calls' = [calls EXCEPT ![c] = Call("fetch", op, request, NoResponse, <<>>, Pending)]
    /\ UNCHANGED <<store, href>>

(* ApiClient.get / post / put / delete: build the request and await fetch. *)
ApiClientGet(c, op) ==
    /\ op.client = "ApiClient" /\ op.method = "GET"
    /\ Send(c, op, ApiClientRequest(store, op, NoBody))

ApiClientPost(c, op, data) ==
    /\ op.client = "ApiClient" /\ op.method = "POST"
    /\ op.kind = "create" \/ ~data.given
    /\ Send(c, op, ApiClientRequest(store, op, BodyOf(data)))

ApiClientPut(c, op, data) ==
    /\ op.client = "ApiClient" /\ op.method = "PUT"
    /\ Send(c, op, ApiClientRequest(store, op, BodyOf(data)))

ApiClientDelete(c, op) ==
    /\ op.client = "ApiClient" /\ op.method = "DELETE"
    /\ Send(c, op, ApiClientRequest(store, op, NoBody))

(* fetch resolves inside handleResponse: the 401 branch runs, then the body *)
(* read is awaited.                                                        *)
HandleResponse(c, response) ==
    LET effects == handleResponseSideEffects(response)
        env == PerformAll(Env(store, href), effects)
    IN  /\ calls[c].pc = "fetch"
        /\ calls[c].op.client = "ApiClient"
        /\ store' = env.store
        /\ href' = env.href
        /\ calls' = [calls EXCEPT ![c].pc = "body", ![c].response = response,
                                  ![c].effects = effects]

HandleResponseSettle(c) ==
    /\ calls[c].pc = "body"
    /\ calls[c].op.client = "ApiClient"
    /\ calls' = [calls EXCEPT ![c].pc = "done",
                              ![c].outcome = handleResponseResult(calls[c].response)]
    /\ UNCHANGED <<store, href>>

AuthLogin(c) ==
    /\ AuthAPI.login.client = "fetch"
    /\ Send(c, AuthAPI.login, LoginRequest)

AuthLoginResponse(c, response) ==
    /\ calls[c].pc = "fetch"
    /\ calls[c].op.client = "fetch"
    /\ calls' = [calls EXCEPT ![c].pc = "body", ![c].response = response]
    /\ UNCHANGED <<store, href>>

AuthLoginSettle(c) ==
    /\ calls[c].pc = "body"
    /\ calls[c].op.client = "fetch"
    /\ calls' = [calls EXCEPT ![c].pc = "done",
                              ![c].outcome = loginResult(calls[c].response)]
    /\ UNCHANGED <<store, href>>

ApiRequest(c, op, data) ==
    /\ op.client = "apiRequest"
    /\ op.kind = "create" \/ ~data.given
    /\ Send(c, op, apiRequestRequest(op, data))

(* fetch resolves inside apiRequest: a non-2xx throws at once, a 2xx awaits *)
(* response.json().                                                         *)
ApiRequestResponse(c, response) ==
    /\ calls[c].pc = "fetch"
    /\ calls[c].op.client = "apiRequest"
    /\ calls' = [calls EXCEPT
                   ![c].pc = IF OK(response.status) THEN "body" ELSE "done",
                   ![c].response = response,
                   ![c].outcome = IF OK(response.status) THEN Pending
                                  ELSE apiRequestError(response)]
    /\ UNCHANGED <<store, href>>

ApiRequestSettle(c) ==
    /\ calls[c].pc = "body"
    /\ calls[c].op.client = "apiRequest"
    /\ calls' = [calls EXCEPT ![c].pc = "done",
                              ![c].outcome = ResponseJson(calls[c].response)]
    /\ UNCHANGED <<store, href>>

(* The host application's continuation of a successful authAPI.login: it *)
(* persists the token and the principal of the response.                 *)
LoggedIn(c) ==
    /\ calls[c].pc = "done"
    /\ calls[c].op = AuthAPI.login
    /\ calls[c].outcome.kind = "returned"
    /\ calls[c].outcome.json.access_token # Absent

HostStoreSession(c) ==
    /\ LoggedIn(c)
    /\ store' = [token |-> calls[c].outcome.json.access_token,
                 user |-> calls[c].outcome.json.user]
    /\ calls' = [calls EXCEPT ![c] = Idle]
    /\ UNCHANGED href

(* Any other settled call is consumed by its caller. *)
Return(c) ==
    /\ calls[c].pc = "done"
    /\ ~LoggedIn(c)
    /\ calls' = [calls EXCEPT ![c] = Idle]
    /\ UNCHANGED <<store, href>>

-----------------------------------------------------------------------------
(* Spec: one call at a time, every operation, argument and response. *)

Step(c, coreOps, legacyOps, dataArgs, responses) ==
    \/ \E op \in coreOps : ApiClientGet(c, op)
    \/ \E op \in coreOps, data \in dataArgs : ApiClientPost(c, op, data)
    \/ \E op \in coreOps, data \in dataArgs : ApiClientPut(c, op, data)
    \/ \E op \in coreOps : ApiClientDelete(c, op)
    \/ \E response \in responses : HandleResponse(c, response)
    \/ HandleResponseSettle(c)
    \/ AuthLogin(c)
    \/ \E response \in responses : AuthLoginResponse(c, response)
    \/ AuthLoginSettle(c)
    \/ \E op \in legacyOps, data \in dataArgs : ApiRequest(c, op, data)
    \/ \E response \in responses : ApiRequestResponse(c, response)
    \/ ApiRequestSettle(c)
    \/ HostStoreSession(c)
    \/ Return(c)

Next == Step(1, CoreOps, LegacyOps, DataArgs, Responses)

Spec == Init /\ [][Next]_vars

(* SpecConc: MaxCalls calls in flight, interleaved at their awaits. *)

ConcCoreOps == {AuthAPI.logout, ReservationAPI.getAll, BusAPI.update, ReservationAPI.cancel}
ConcLegacyOps == {Api.busesGetAll}
ConcResponses ==
    {Response(200, "application/json", BodySession1),
     Response(401, "application/json", BodyDetail),
     Response(500, "text/plain", BodyHtml)}

NextConc == \E c \in CallIds : Step(c, ConcCoreOps, ConcLegacyOps, {NoData}, ConcResponses)

SpecConc == Init /\ [][NextConc]_vars

-----------------------------------------------------------------------------
(* Properties *)

(* The step in which call c, issued through ApiClient, sees its 401. *)
Handles401(c) ==
    /\ calls[c].pc = "fetch"
    /\ calls'[c].pc = "body"
    /\ calls[c].op.client = "ApiClient"
    /\ calls'[c].response.status = 401

Handled401(c) ==
    /\ calls[c].pc \in {"body", "done"}
    /\ calls[c].op.client = "ApiClient"
    /\ calls[c].response.status = 401

(* The step in which call c settles: its promise resolves or rejects. *)
Finishes(c) == calls[c].pc \in {"fetch", "body"} /\ calls'[c].pc = "done"

HostStores == \E d \in CallIds : HostStoreSession(d)

Frontend(c) == calls[c].op.client \in {"ApiClient", "fetch"}

(* C1 as stated: once a frontend call (authAPI.login included) that got a 401 *)
(* has finished, localStorage holds neither 'token' nor 'user'.               *)
C1_Original ==
    [][ \A c \in CallIds :
            (Finishes(c) /\ Frontend(c) /\ calls'[c].response.status = 401)
                => store' = EmptyStore
      ]_vars

(* C1 amended: a 401 seen by a call issued through ApiClient (every operation *)
(* but authAPI.login) leaves localStorage without 'token' and without 'user'  *)
(* as soon as handleResponse has seen it, and once a call has cleared the     *)
(* store only the host storing a new session fills it again.                  *)
C1_Amended ==
    [][ /\ \A c \in CallIds :
              Handles401(c) => (store'.token = NoToken /\ store'.user = NoUser)
        /\ ((\E c \in CallIds : Handled401(c)) /\ store = EmptyStore /\ store' # EmptyStore)
              => HostStores
      ]_vars

(* A call through ApiClient that carried a token has finished with a 401 and *)
(* the store is empty.                                                       *)
C1_Witness ==
    \E c \in CallIds :
        /\ Handled401(c) /\ calls[c].pc = "done"
        /\ calls[c].request.authorization # NoHeader
        /\ store = EmptyStore

(* C2 as stated: every call answered with a non-2xx status fails with an *)
(* ApiError whose status is the HTTP status of the response.             *)
C2_Claim ==
    \A c \in CallIds :
        (calls[c].pc = "done" /\ ~OK(calls[c].response.status))
            => /\ calls[c].outcome.kind = "threw"
               /\ calls[c].outcome.name = "ApiError"
               /\ calls[c].outcome.status = {calls[c].response.status}

IssuesThroughCore(c) ==
    /\ calls[c].pc = "idle"
    /\ calls'[c].pc = "fetch"
    /\ calls'[c].op.client = "ApiClient"

Anonymous == store = EmptyStore
Authenticated == store.token # NoToken /\ store.user # NoUser

(* C5 as stated: the login call itself stores the token and the principal *)
(* when it succeeds; a logout call leaves the store without them.         *)
C5_Original ==
    [][ \A c \in CallIds :
          /\ (Finishes(c) /\ calls[c].op.kind = "login" /\ calls'[c].outcome.kind = "returned"
                 /\ calls'[c].outcome.json.access_token # Absent)
                => store'.token = calls'[c].outcome.json.access_token
          /\ (Finishes(c) /\ calls[c].op.kind = "logout")
                => store' = EmptyStore
      ]_vars

(* C5 amended: the session starts anonymous and is always anonymous or       *)
(* authenticated; no step of a login or logout call writes localStorage,     *)
(* except the 401 branch of handleResponse when a logout is answered 401; it *)
(* becomes authenticated only when the host stores the token and principal a *)
(* successful authAPI.login returned, and anonymous again only when a call   *)
(* through ApiClient is answered 401.                                        *)
C5_Amended ==
    /\ Anonymous
    /\ [](Anonymous \/ Authenticated)
    /\ [][ /\ \A c \in CallIds :
                (calls[c].op.kind \in {"login", "logout"} /\ calls'[c] # calls[c]
                    /\ ~Handles401(c) /\ ~HostStoreSession(c))
                  => store' = store
           /\ (Anonymous /\ ~Anonymous') =>
                \E c \in CallIds :
                    /\ HostStoreSession(c)
                    /\ store' = [token |-> calls[c].outcome.json.access_token,
                                 user |-> calls[c].outcome.json.user]
           /\ (~Anonymous /\ Anonymous') => \E c \in CallIds : Handles401(c)
         ]_vars

(* authAPI.logout has returned a value and the session is still stored. *)
C5_Witness ==
    \E c \in CallIds :
        /\ calls[c].pc = "done"
        /\ calls[c].op = AuthAPI.logout
        /\ calls[c].outcome.kind = "returned"
        /\ Authenticated

(* C6 as stated, for ApiClient and apiRequest: a 2xx whose content type     *)
(* contains application/json settles with the decoded body, any other 2xx   *)
(* with the raw text.                                                       *)
C6_Claim ==
    \A c \in CallIds :
        (calls[c].pc = "done" /\ calls[c].op.client \in {"ApiClient", "apiRequest"}
            /\ OK(calls[c].response.status))
          => IF IncludesJson(calls[c].response.contentType)
             THEN JsonParse(calls[c].response.body) # SyntaxError
                    => calls[c].outcome = ReturnedJson(JsonParse(calls[c].response.body))
             ELSE calls[c].outcome = ReturnedText(calls[c].response.body)

(* C7 as stated: the body of a create request holds no server-assigned key. *)
C7_Claim ==
    \A c \in CallIds :
        (calls[c].pc # "idle" /\ calls[c].op.kind = "create")
            => calls[c].request.body.keys \cap ServerAssigned = {}

Fallback(c) == IF calls[c].op.client = "fetch" THEN "Login failed" ELSE "Network error"

(* C9 as stated, for ApiClient and authAPI.login: a non-2xx always raises an *)
(* Error whose message is the fallback when the body is not JSON, the body's *)
(* message when it has one, and 'HTTP <status>' when it has none.            *)
C9_Claim ==
    \A c \in CallIds :
        (calls[c].pc = "done" /\ Frontend(c) /\ ~OK(calls[c].response.status))
          => LET parsed == JsonParse(calls[c].response.body)
             IN  /\ calls[c].outcome.kind = "threw"
                 /\ calls[c].outcome.name = "Error"
                 /\ calls[c].outcome.message =
                       (IF parsed = SyntaxError THEN Fallback(c)
                        ELSE IF parsed.message \notin {Absent, ""} THEN parsed.message
                        ELSE "HTTP " \o ToString(calls[c].response.status))

(* The step in which call c receives a response that is not a 401. *)
ReceivesOther(c) ==
    /\ calls[c].pc = "fetch"
    /\ calls'[c].pc # "fetch"
    /\ calls'[c].response.status # 401

(* C10: a call answered with anything but 401 changes neither localStorage *)
(* nor the location and performs no side effect; the client changes the    *)
(* store only by removing 'token' and 'user' on a 401 through ApiClient.   *)
C10_Frame ==
    [][ /\ \A c \in CallIds :
              ReceivesOther(c) =>
                  (store' = store /\ href' = href /\ calls'[c].effects = <<>>)
        /\ ~HostStores =>
              /\ store' # store =>
                    (store' = EmptyStore /\ \E c \in CallIds : Handles401(c))
              /\ href' # href =>
                    (href' = "/login" /\ \E c \in CallIds : Handles401(c))
      ]_vars

(* A call through ApiClient has failed with a 500 while the session is *)
(* stored: the session and the location are as they were.              *)
C10_Witness ==
    \E c \in CallIds :
        /\ calls[c].pc = "done"
        /\ calls[c].op.client = "ApiClient"
        /\ calls[c].response.status = 500
        /\ calls[c].outcome.kind = "threw"
        /\ Authenticated /\ href = "/"

====
